---- MODULE Spec2Model ----
(***************************************************************************)
(* Sound-chat: FSK framing over audio.                                     *)
(*   sender.py   SoundSender   text -> bits -> tone segments -> signal     *)
(*   receiver.py SoundReceiver buffer -> chunks -> classifications ->      *)
(*                             frame boundaries -> bits -> text            *)
(*                                                                         *)
(* Representation.                                                         *)
(*   text        sequence of code points (ord of each character)           *)
(*   bit string  sequence of the one-character strings "0" and "1"         *)
(*   signal      run-length sequence of segments [freq, n, amp]: n         *)
(*               consecutive samples of a sine of frequency freq (Hz) and  *)
(*               peak amplitude amp (millionths of full scale); silence is *)
(*               freq = 0, amp = 0.  np.concatenate of the parts is the    *)
(*               concatenation of the segments.                            *)
(*   durations   milliseconds (0.1 s = 100, 0.2 s = 200)                   *)
(***************************************************************************)
EXTENDS Integers, Sequences, FiniteSets

\* ------------------------------------------------------------------------
\* Bounds of the model
\* ------------------------------------------------------------------------
MaxTextLen == 2      \* longest text handed to the sender
MaxChunks == 5       \* longest free-form recorded buffer, in chunks
MaxBits == 9         \* longest bit string handed directly to binary_to_text
MaxFreq == 3200      \* highest frequency (Hz) handed directly to classify_frequency
MaxFairChunks == 3   \* longest recorded buffer, in chunks, of the fair runs
MaxChunkSize == 5    \* largest samples-per-bit of a receiver built with other settings
MaxSamples == 16     \* longest buffer, in samples, handed to such a receiver

\* ------------------------------------------------------------------------
\* Program constants
\* ------------------------------------------------------------------------
sample_rate == 44100
bit_duration == 100
freq_0 == 1000
freq_1 == 2000
freq_start == 500
freq_end == 3000
freq_tolerance == 50
min_amplitude == 10000
StartEndDuration == 200
SilenceDuration == 100
FullScale == 1000000
HeadroomTenths == 8
BitsPerChar == 8
PrintableLow == 32
PrintableHigh == 126

Min(a, b) == IF a < b THEN a ELSE b
Max(a, b) == IF a > b THEN a ELSE b
Abs(x) == IF x < 0 THEN 0 - x ELSE x

\* Python's None for the two boundary indices.
None == 0 - 1

\* ------------------------------------------------------------------------
\* sender.py : text_to_binary
\* ------------------------------------------------------------------------
RECURSIVE BinDigits(_)
\* format(n, 'b'): the binary digits of n, most significant first, no padding.
BinDigits(n) ==
    IF n < 2 THEN <<IF n = 1 THEN "1" ELSE "0">>
    ELSE BinDigits(n \div 2) \o <<IF n % 2 = 1 THEN "1" ELSE "0">>

RECURSIVE Zeros(_)
Zeros(k) == IF k <= 0 THEN <<>> ELSE <<"0">> \o Zeros(k - 1)

\* A plausible slip: least significant bit first.
RECURSIVE BinDigitsLsbFirst(_)
BinDigitsLsbFirst(n) ==
    IF n < 2 THEN <<IF n = 1 THEN "1" ELSE "0">>
    ELSE <<IF n % 2 = 1 THEN "1" ELSE "0">> \o BinDigitsLsbFirst(n \div 2)

Format08bLsbFirst(n) ==
    BinDigitsLsbFirst(n) \o Zeros(BitsPerChar - Len(BinDigitsLsbFirst(n)))

\* format(n, '08b'): zero-padded on the left to a MINIMUM width of 8; a
\* value above 255 keeps all its digits and is wider than 8.
Format08b(n) == Zeros(BitsPerChar - Len(BinDigits(n))) \o BinDigits(n)

RECURSIVE text_to_binary(_)
text_to_binary(t) ==
    IF t = <<>> THEN <<>> ELSE Format08b(Head(t)) \o text_to_binary(Tail(t))

\* ------------------------------------------------------------------------
\* receiver.py : binary_to_text
\* ------------------------------------------------------------------------
RECURSIVE DecDigits(_)
\* str(n) for n >= 0, as code points of the decimal digits.
DecDigits(n) ==
    IF n < 10 THEN <<48 + n>> ELSE DecDigits(n \div 10) \o <<48 + (n % 10)>>

RECURSIVE BinValue(_)
\* int(byte, 2)
BinValue(b) ==
    IF b = <<>> THEN 0
    ELSE 2 * BinValue(SubSeq(b, 1, Len(b) - 1)) + (IF b[Len(b)] = "1" THEN 1 ELSE 0)

\* A plausible slip: cut the leftover bits instead of padding them.
PadToByteTruncating(b) == SubSeq(b, 1, (Len(b) \div BitsPerChar) * BitsPerChar)

\* binary_str.ljust((len + 7) // 8 * 8, '0') when len % 8 != 0
PadToByte(b) ==
    IF Len(b) % BitsPerChar # 0
    THEN b \o Zeros(((Len(b) + 7) \div BitsPerChar) * BitsPerChar - Len(b))
    ELSE b

\* A plausible slip: DEL (127) taken for printable.
CharOrPlaceholderOffByOne(code) ==
    IF PrintableLow <= code /\ code <= PrintableHigh + 1
    THEN <<code>>
    ELSE <<91>> \o DecDigits(code) \o <<93>>

\* chr(char_code) for printable ASCII, otherwise f"[{char_code}]"
CharOrPlaceholder(code) ==
    IF PrintableLow <= code /\ code <= PrintableHigh
    THEN <<code>>
    ELSE <<91>> \o DecDigits(code) \o <<93>>

RECURSIVE DecodeGroups(_)
\* for i in range(0, len, 8): byte = binary_str[i:i+8]; if len(byte) == 8: ...
DecodeGroups(b) ==
    IF b = <<>> THEN <<>>
    ELSE LET byte == SubSeq(b, 1, Min(BitsPerChar, Len(b)))
             rest == SubSeq(b, Len(byte) + 1, Len(b))
         IN  (IF Len(byte) = BitsPerChar
              THEN CharOrPlaceholder(BinValue(byte))
              ELSE <<>>) \o DecodeGroups(rest)

binary_to_text(b) == DecodeGroups(PadToByte(b))

\* ------------------------------------------------------------------------
\* sender.py : generate_tone, create_signal
\* ------------------------------------------------------------------------
\* int(self.sample_rate * duration), duration in milliseconds
SampleCount(duration) == (sample_rate * duration) \div 1000

\* One sine segment.  The linear fade over min(100, samples // 10) samples at
\* each end shapes the envelope only: it changes neither the sample count nor
\* the bin of the spectral peak, and is not represented.
generate_tone(frequency, duration) ==
    [freq |-> frequency, n |-> SampleCount(duration), amp |-> FullScale]

\* np.zeros(int(self.sample_rate * 0.1))
silence == [freq |-> 0, n |-> SampleCount(SilenceDuration), amp |-> 0]

\* freq = self.freq_1 if bit == '1' else self.freq_0
BitTone(bit) ==
    generate_tone(IF bit = "1" THEN freq_1 ELSE freq_0, bit_duration)

RECURSIVE BitTones(_)
BitTones(bits) ==
    IF bits = <<>> THEN <<>> ELSE <<BitTone(Head(bits))>> \o BitTones(Tail(bits))

\* signal_parts, in the order of the append calls
SignalParts(binary_data) ==
    <<generate_tone(freq_start, StartEndDuration), silence>>
        \o BitTones(binary_data)
        \o <<silence, generate_tone(freq_end, StartEndDuration)>>

RECURSIVE MaxAmp(_)
\* np.max(np.abs(full_signal))
MaxAmp(sig) == IF sig = <<>> THEN 0 ELSE Max(Head(sig).amp, MaxAmp(Tail(sig)))

\* full_signal / max_val * 0.8 when max_val > 0
Normalize(sig) ==
    LET max_val == MaxAmp(sig)
    IN  IF max_val > 0
        THEN [i \in 1..Len(sig) |->
                [sig[i] EXCEPT !.amp =
                    (sig[i].amp * HeadroomTenths) \div (max_val \div (FullScale \div 10))]]
        ELSE sig

create_signal(t) == Normalize(SignalParts(text_to_binary(t)))

RECURSIVE NumSamples(_)
\* len(full_signal)
NumSamples(sig) == IF sig = <<>> THEN 0 ELSE Head(sig).n + NumSamples(Tail(sig))

\* ------------------------------------------------------------------------
\* sender.py : send_message's precondition
\* ------------------------------------------------------------------------
\* str.isspace for one character
IsSpace(c) ==
    \/ c \in 9..13
    \/ c \in 28..32
    \/ c \in {133, 160, 5760, 8232, 8233, 8239, 8287, 12288}
    \/ c \in 8192..8202

RECURSIVE LStrip(_)
LStrip(t) == IF t # <<>> /\ IsSpace(Head(t)) THEN LStrip(Tail(t)) ELSE t

RECURSIVE RStrip(_)
RStrip(t) ==
    IF t # <<>> /\ IsSpace(t[Len(t)]) THEN RStrip(SubSeq(t, 1, Len(t) - 1)) ELSE t

\* text.strip()
Strip(t) == RStrip(LStrip(t))

\* A plausible slip: the text tested without stripping it.
IsBlankNoStrip(t) == t = <<>>

\* not text.strip()
IsBlank(t) == Strip(t) = <<>>

\* ------------------------------------------------------------------------
\* receiver.py : chunking, detect_dominant_frequency, classify_frequency
\* ------------------------------------------------------------------------
samples_per_bit == (sample_rate * bit_duration) \div 1000

RECURSIVE Slice(_, _, _)
\* audio_data[a:b] on the run-length form
Slice(sig, a, b) ==
    IF sig = <<>> \/ b <= 0 THEN <<>>
    ELSE LET h == Head(sig)
             lo == Max(a, 0)
             hi == Min(b, h.n)
             rest == Slice(Tail(sig), a - h.n, b - h.n)
         IN  IF hi > lo THEN <<[h EXCEPT !.n = hi - lo]>> \o rest ELSE rest

RECURSIVE MakeChunks(_, _, _)
\* for i in range(0, len(audio_data), chunk_size): keep a chunk that is at
\* least chunk_size // 2 long
MakeChunks(audio, i, chunk_size) ==
    IF i >= NumSamples(audio) THEN <<>>
    ELSE LET chunk == Slice(audio, i, i + chunk_size)
         IN  (IF NumSamples(chunk) >= chunk_size \div 2 THEN <<chunk>> ELSE <<>>)
                 \o MakeChunks(audio, i + chunk_size, chunk_size)

\* Peak of the Hann-windowed magnitude spectrum of n samples of a sine of
\* amplitude amp: amp * n / 4 (coherent gain 1/2, half of the energy in the
\* positive-frequency bin).
Magnitude(seg) == seg.amp * (seg.n \div 4)

RECURSIVE PeakSegment(_)
\* np.argmax: the strongest component, the first one on a tie
PeakSegment(chunk) ==
    IF Len(chunk) = 1 THEN chunk[1]
    ELSE LET r == PeakSegment(Tail(chunk))
         IN  IF Magnitude(Head(chunk)) >= Magnitude(r) THEN Head(chunk) ELSE r

\* freqs[peak_idx]: the centre of the FFT bin nearest to f, bins being
\* sample_rate / len(chunk) apart
BinFrequency(f, len) ==
    (((2 * f * len + sample_rate) \div (2 * sample_rate)) * sample_rate) \div len

\* A plausible slip: the amplitude threshold left out.
detect_dominant_frequencyNoThreshold(chunk) ==
    IF NumSamples(chunk) = 0 THEN 0
    ELSE BinFrequency(PeakSegment(chunk).freq, NumSamples(chunk))

\* 0 for an empty chunk or one whose spectral peak is below min_amplitude,
\* otherwise the frequency of the peak bin
detect_dominant_frequency(chunk) ==
    IF NumSamples(chunk) = 0 THEN 0
    ELSE LET peak == PeakSegment(chunk)
         IN  IF Magnitude(peak) < min_amplitude THEN 0
             ELSE BinFrequency(peak.freq, NumSamples(chunk))

\* The four tolerance tests, in the order of the if / elif chain.
ClassOrder ==
    << <<"START", freq_start>>, <<"END", freq_end>>,
       <<"0", freq_0>>, <<"1", freq_1>> >>

\* A plausible slip: the tolerance applied ten times too wide.
WithinToleranceWide(freq, centre) == Abs(freq - centre) < 10 * freq_tolerance

\* abs(freq - self.freq_x) < self.freq_tolerance
WithinTolerance(freq, centre) == Abs(freq - centre) < freq_tolerance

RECURSIVE ClassifyInOrder(_, _)
ClassifyInOrder(freq, order) ==
    IF order = <<>> THEN "NOISE"
    ELSE IF WithinTolerance(freq, Head(order)[2]) THEN Head(order)[1]
    ELSE ClassifyInOrder(freq, Tail(order))

classify_frequency(freq) == ClassifyInOrder(freq, ClassOrder)

\* classifications.append((freq, classification)) for every chunk
ClassifyAll(chs) ==
    [i \in 1..Len(chs) |->
        LET f == detect_dominant_frequency(chs[i])
        IN  [freq |-> f, cls |-> classify_frequency(f)]]

\* ------------------------------------------------------------------------
\* receiver.py : process_audio, boundary search, trimming, bit extraction
\* ------------------------------------------------------------------------
\* classifications[i] with Python's 0-based index
At(cl, i) == cl[i + 1]

\* A plausible slip: the break after the first END left out, so that the
\* last END after the Start wins.
RECURSIVE ScanNoBreak(_, _, _, _)
ScanNoBreak(cl, i, s, e) ==
    IF i >= Len(cl) THEN [start |-> s, end |-> e]
    ELSE IF At(cl, i).cls = "START" /\ s = None THEN ScanNoBreak(cl, i + 1, i, e)
    ELSE IF At(cl, i).cls = "END" /\ s # None THEN ScanNoBreak(cl, i + 1, s, i)
    ELSE ScanNoBreak(cl, i + 1, s, e)

ScanBoundariesNoBreak(cl, i, s) == ScanNoBreak(cl, i, s, None)

\* A plausible slip: a buffer without Start decoded from its first chunk.
RECURSIVE ScanBoundariesDefaultStart(_, _, _)
ScanBoundariesDefaultStart(cl, i, s) ==
    IF i >= Len(cl) THEN [start |-> IF s = None THEN 0 ELSE s, end |-> None]
    ELSE IF At(cl, i).cls = "START" /\ s = None
         THEN ScanBoundariesDefaultStart(cl, i + 1, i)
    ELSE IF At(cl, i).cls = "END" /\ s # None THEN [start |-> s, end |-> i]
    ELSE ScanBoundariesDefaultStart(cl, i + 1, s)

RECURSIVE ScanBoundaries(_, _, _)
\* for i, (freq, classification) in enumerate(classifications): the first
\* START sets start_idx, the first END after it sets end_idx and breaks
ScanBoundaries(cl, i, s) ==
    IF i >= Len(cl) THEN [start |-> s, end |-> None]
    ELSE IF At(cl, i).cls = "START" /\ s = None THEN ScanBoundaries(cl, i + 1, i)
    ELSE IF At(cl, i).cls = "END" /\ s # None THEN [start |-> s, end |-> i]
    ELSE ScanBoundaries(cl, i + 1, s)

\* A plausible slip: the last chunk taken for the missing End.
EndOrLengthLastChunk(e, cl) == IF e = None THEN Len(cl) - 1 ELSE e

\* if end_idx is None: end_idx = len(classifications)
EndOrLength(e, cl) == IF e = None THEN Len(cl) ELSE e

\* A plausible slip: 'if' for 'while', one silent chunk skipped at most.
SkipLeadingNoiseOnce(cl, ds) ==
    IF ds < Len(cl) /\ At(cl, ds).cls = "NOISE" THEN ds + 1 ELSE ds

RECURSIVE SkipLeadingNoise(_, _)
\* while data_start < len(classifications) and ...[data_start][1] == 'NOISE'
SkipLeadingNoise(cl, ds) ==
    IF ds < Len(cl) /\ At(cl, ds).cls = "NOISE"
    THEN SkipLeadingNoise(cl, ds + 1) ELSE ds

\* A plausible slip: the lower bound of the trailing loop left out.
RECURSIVE SkipTrailingNoiseUnbounded(_, _, _)
SkipTrailingNoiseUnbounded(cl, ds, de) ==
    IF de > 0 /\ At(cl, de - 1).cls = "NOISE"
    THEN SkipTrailingNoiseUnbounded(cl, ds, de - 1) ELSE de

RECURSIVE SkipTrailingNoise(_, _, _)
\* while data_end > data_start and ...[data_end-1][1] == 'NOISE'
SkipTrailingNoise(cl, ds, de) ==
    IF de > ds /\ At(cl, de - 1).cls = "NOISE"
    THEN SkipTrailingNoise(cl, ds, de - 1) ELSE de

\* A plausible slip: the tie given to '0'.
NoiseGuessTieZero(freq) ==
    IF Abs(freq - freq_0) <= Abs(freq - freq_1) THEN "0" ELSE "1"

\* if abs(freq - self.freq_0) < abs(freq - self.freq_1): '0' else: '1'
NoiseGuess(freq) ==
    IF Abs(freq - freq_0) < Abs(freq - freq_1) THEN "0" ELSE "1"

\* A plausible slip: a START chunk in the window read as a '0'.
BitsOfChunkStartAsZero(entry) ==
    IF entry.cls \in {"0", "1"} THEN <<entry.cls>>
    ELSE IF entry.cls = "NOISE" THEN <<NoiseGuess(entry.freq)>>
    ELSE <<"0">>

\* What one chunk of the payload window adds to binary_data.
BitsOfChunk(entry) ==
    IF entry.cls \in {"0", "1"} THEN <<entry.cls>>
    ELSE IF entry.cls = "NOISE" THEN <<NoiseGuess(entry.freq)>>
    ELSE <<>>

RECURSIVE ExtractRange(_, _, _)
\* for i in range(data_start, data_end)
ExtractRange(cl, i, de) ==
    IF i >= de THEN <<>>
    ELSE BitsOfChunk(At(cl, i)) \o ExtractRange(cl, i + 1, de)

\* Values of process_audio's result: still running, None, or a text.
Pending == [tag |-> "pending", text |-> <<>>]
NoMessage == [tag |-> "None", text |-> <<>>]
TextMessage(t) == [tag |-> "text", text |-> t]

\* A plausible slip: the empty-payload test left out.
FinishUnchecked(bits) == TextMessage(binary_to_text(bits))

\* if not binary_data: return None; else return self.binary_to_text(binary_data)
Finish(bits) == IF bits = <<>> THEN NoMessage ELSE TextMessage(binary_to_text(bits))

\* Number of binary_to_text calls made on the way to Finish's result.
FinishCalls(bits) == IF Finish(bits).tag = "text" THEN 1 ELSE 0

\* process_audio from the classification list on, as one function: boundary
\* search, trimming, extraction, result.
DecodeClassified(cl) ==
    LET b == ScanBoundaries(cl, 0, None)
    IN  IF b.start = None THEN NoMessage
        ELSE LET e == EndOrLength(b.end, cl)
                 ds == SkipLeadingNoise(cl, b.start + 1)
                 de == SkipTrailingNoise(cl, ds, e)
             IN  Finish(ExtractRange(cl, ds, de))

\* ------------------------------------------------------------------------
\* State
\* ------------------------------------------------------------------------
VARIABLES
    pc,               \* position in the sender / receiver run
    text,             \* the sender's message
    signal,           \* create_signal's return value
    audio_data,       \* the buffer handed to process_audio
    chunks,           \* process_audio: chunks
    classifications,  \* process_audio: (freq, classification) per chunk
    start_idx,        \* process_audio: start_idx (None = -1)
    end_idx,          \* process_audio: end_idx   (None = -1)
    data_start,       \* process_audio: data_start
    data_end,         \* process_audio: data_end
    binary_data,      \* bit string (sender: text_to_binary, receiver: extracted)
    message,          \* process_audio's / binary_to_text's result
    codec_calls,      \* number of binary_to_text invocations
    sent,             \* send_message's return value ("not_called" without a call)
    chunk_size        \* process_audio: chunk_size, int(sample_rate * bit_duration)

vars == <<pc, text, signal, audio_data, chunks, classifications, start_idx,
          end_idx, data_start, data_end, binary_data, message, codec_calls,
          sent, chunk_size>>

\* ------------------------------------------------------------------------
\* Inputs
\* ------------------------------------------------------------------------
\* Code points the sender is given: space, 'H', 'I', '~', BEL, and one
\* beyond a byte.
Chars == {32, 72, 73, 126, 7, 300}

SeqsUpTo(S, k) == UNION {[1..m -> S] : m \in 0..k}

Texts == SeqsUpTo(Chars, MaxTextLen)

\* One recorded chunk: silence, a framing or data tone, an off-grid tone
\* (1300 Hz, 1500 Hz), or a Start-frequency tone too faint to register.
ChunkKinds ==
    {[freq |-> 0, n |-> samples_per_bit, amp |-> 0]}
    \cup {[freq |-> f, n |-> samples_per_bit, amp |-> (FullScale \div 10) * HeadroomTenths] :
            f \in {freq_start, freq_end, freq_0, freq_1, 1300, 1500}}
    \cup {[freq |-> freq_start, n |-> samples_per_bit, amp |-> 5]}

ToneChunk(f) == [freq |-> f, n |-> samples_per_bit, amp |-> (FullScale \div 10) * HeadroomTenths]

\* Recorded buffers: every chunk sequence up to MaxChunks, and every buffer
\* made of one Start chunk followed by one byte of data chunks and no End.
FreeBuffers == SeqsUpTo(ChunkKinds, MaxChunks)

TruncatedBuffers ==
    {<<ToneChunk(freq_start)>> \o b : b \in [1..BitsPerChar -> {ToneChunk(freq_0), ToneChunk(freq_1)}]}

Buffers == FreeBuffers \cup TruncatedBuffers

Idle ==
    /\ signal = <<>>
    /\ chunks = <<>>
    /\ classifications = <<>>
    /\ start_idx = None
    /\ end_idx = None
    /\ data_start = 0
    /\ data_end = 0
    /\ binary_data = <<>>
    /\ message = Pending
    /\ codec_calls = 0
    /\ chunk_size = samples_per_bit

\* A sender asked to send a text (send_message) or to encode one
\* (create_signal), or a receiver handed a buffer.
Init ==
    /\ Idle
    /\ \/ pc = "send_message" /\ text \in Texts /\ audio_data = <<>> /\ sent = "pending"
       \/ pc = "send" /\ text \in Texts /\ audio_data = <<>> /\ sent = "not_called"
       \/ pc = "listen" /\ text = <<>> /\ audio_data \in Buffers /\ sent = "not_called"

\* ------------------------------------------------------------------------
\* Actions
\* ------------------------------------------------------------------------
\* SoundSender.send_message: reject a blank text, otherwise go on to
\* create_signal and playback
SendMessage ==
    /\ pc = "send_message"
    /\ IF IsBlank(text)
       THEN sent' = "False" /\ pc' = "rejected"
       ELSE sent' = sent /\ pc' = "send"
    /\ UNCHANGED <<chunk_size, text, signal, audio_data, chunks, classifications,
                   start_idx, end_idx, data_start, data_end, binary_data, message,
                   codec_calls>>

\* SoundSender.create_signal
CreateSignal ==
    /\ pc = "send"
    /\ binary_data' = text_to_binary(text)
    /\ signal' = create_signal(text)
    /\ pc' = "play"
    /\ UNCHANGED <<sent, chunk_size, text, audio_data, chunks, classifications, start_idx, end_idx,
                   data_start, data_end, message, codec_calls>>

\* sd.play / sd.wait over the noiseless channel: the receiver's buffer is the
\* signal, unmodified; send_message, when it made the call, returns True.
Transmit ==
    /\ pc = "play"
    /\ audio_data' = signal
    /\ binary_data' = <<>>
    /\ sent' = (IF sent = "pending" THEN "True" ELSE sent)
    /\ pc' = "listen"
    /\ UNCHANGED <<chunk_size, text, signal, chunks, classifications, start_idx, end_idx,
                   data_start, data_end, message, codec_calls>>

\* process_audio: split the buffer into chunks
Chunking ==
    /\ pc = "listen"
    /\ chunks' = MakeChunks(audio_data, 0, chunk_size)
    /\ pc' = "classify"
    /\ UNCHANGED <<sent, chunk_size, text, signal, audio_data, classifications, start_idx, end_idx,
                   data_start, data_end, binary_data, message, codec_calls>>

\* process_audio: analyse each chunk
ClassifyChunks ==
    /\ pc = "classify"
    /\ classifications' = ClassifyAll(chunks)
    /\ pc' = "seek"
    /\ UNCHANGED <<sent, chunk_size, text, signal, audio_data, chunks, start_idx, end_idx,
                   data_start, data_end, binary_data, message, codec_calls>>

\* process_audio: find message boundaries; return None without a Start
FindBoundaries ==
    /\ pc = "seek"
    /\ LET b == ScanBoundaries(classifications, 0, None)
       IN  /\ start_idx' = b.start
           /\ IF b.start = None
              THEN /\ end_idx' = b.end
                   /\ message' = NoMessage
                   /\ pc' = "done"
              ELSE /\ end_idx' = EndOrLength(b.end, classifications)
                   /\ message' = message
                   /\ pc' = "trim"
    /\ UNCHANGED <<sent, chunk_size, text, signal, audio_data, chunks, classifications,
                   data_start, data_end, binary_data, codec_calls>>

\* process_audio: skip the silence after Start and before End
TrimSilence ==
    /\ pc = "trim"
    /\ data_start' = SkipLeadingNoise(classifications, start_idx + 1)
    /\ data_end' = SkipTrailingNoise(classifications, data_start', end_idx)
    /\ pc' = "extract"
    /\ UNCHANGED <<sent, chunk_size, text, signal, audio_data, chunks, classifications, start_idx,
                   end_idx, binary_data, message, codec_calls>>

\* process_audio: convert the data chunks to bits, then to text
ExtractBits ==
    /\ pc = "extract"
    /\ binary_data' = ExtractRange(classifications, data_start, data_end)
    /\ message' = Finish(binary_data')
    /\ codec_calls' = codec_calls + FinishCalls(binary_data')
    /\ pc' = "done"
    /\ UNCHANGED <<sent, chunk_size, text, signal, audio_data, chunks, classifications, start_idx,
                   end_idx, data_start, data_end>>

Next ==
    \/ SendMessage
    \/ CreateSignal
    \/ Transmit
    \/ Chunking
    \/ ClassifyChunks
    \/ FindBoundaries
    \/ TrimSilence
    \/ ExtractBits

Spec == Init /\ [][Next]_vars

\* process_audio on its own.  It is straight-line, single-threaded code with
\* no suspension point: a step that can be taken is taken.
InitFair ==
    /\ Idle
    /\ pc = "listen"
    /\ text = <<>>
    /\ sent = "not_called"
    /\ audio_data \in SeqsUpTo(ChunkKinds, MaxFairChunks)

NextDecode ==
    \/ Chunking
    \/ ClassifyChunks
    \/ FindBoundaries
    \/ TrimSilence
    \/ ExtractBits

SpecFair == InitFair /\ [][NextDecode]_vars /\ WF_vars(NextDecode)

\* ------------------------------------------------------------------------
\* The codec on its own: text_to_binary followed by binary_to_text, and
\* binary_to_text on arbitrary bit strings
\* ------------------------------------------------------------------------
BitStrings == SeqsUpTo({"0", "1"}, MaxBits)

InitCodec ==
    /\ signal = <<>>
    /\ audio_data = <<>>
    /\ chunks = <<>>
    /\ classifications = <<>>
    /\ start_idx = None
    /\ end_idx = None
    /\ data_start = 0
    /\ data_end = 0
    /\ message = Pending
    /\ codec_calls = 0
    /\ sent = "not_called"
    /\ chunk_size = samples_per_bit
    /\ \/ pc = "encode" /\ text \in Texts /\ binary_data = <<>>
       \/ pc = "decode" /\ text = <<>> /\ binary_data \in BitStrings

\* SoundSender.text_to_binary
EncodeText ==
    /\ pc = "encode"
    /\ binary_data' = text_to_binary(text)
    /\ pc' = "decode"
    /\ UNCHANGED <<sent, chunk_size, text, signal, audio_data, chunks, classifications, start_idx,
                   end_idx, data_start, data_end, message, codec_calls>>

\* SoundReceiver.binary_to_text
DecodeBits ==
    /\ pc = "decode"
    /\ message' = TextMessage(binary_to_text(binary_data))
    /\ codec_calls' = codec_calls + 1
    /\ pc' = "decoded"
    /\ UNCHANGED <<sent, chunk_size, text, signal, audio_data, chunks, classifications, start_idx,
                   end_idx, data_start, data_end, binary_data>>

NextCodec == EncodeText \/ DecodeBits

SpecCodec == InitCodec /\ [][NextCodec]_vars

\* ------------------------------------------------------------------------
\* classify_frequency on its own, over every whole frequency up to MaxFreq
\* ------------------------------------------------------------------------
InitClassify ==
    /\ Idle
    /\ pc = "classify_one"
    /\ text = <<>>
    /\ audio_data = <<>>
    /\ sent = "not_called"

\* SoundReceiver.classify_frequency
ClassifyOne ==
    /\ pc = "classify_one"
    /\ \E f \in 0..MaxFreq :
          classifications' = <<[freq |-> f, cls |-> classify_frequency(f)]>>
    /\ pc' = "classified"
    /\ UNCHANGED <<sent, chunk_size, text, signal, audio_data, chunks, start_idx, end_idx,
                   data_start, data_end, binary_data, message, codec_calls>>

NextClassify == ClassifyOne

SpecClassify == InitClassify /\ [][NextClassify]_vars

\* ------------------------------------------------------------------------
\* Chunking on its own: a receiver constructed with another sample rate or
\* bit duration (chunk_size = int(sample_rate * bit_duration) >= 1) and a
\* buffer of any length.
\* ------------------------------------------------------------------------
InitChunking ==
    /\ pc = "listen"
    /\ text = <<>>
    /\ signal = <<>>
    /\ chunks = <<>>
    /\ classifications = <<>>
    /\ start_idx = None
    /\ end_idx = None
    /\ data_start = 0
    /\ data_end = 0
    /\ binary_data = <<>>
    /\ message = Pending
    /\ codec_calls = 0
    /\ sent = "not_called"
    /\ chunk_size \in 1..MaxChunkSize
    /\ \E len \in 0..MaxSamples :
          audio_data = (IF len = 0 THEN <<>>
                        ELSE <<[freq |-> freq_0, n |-> len,
                                amp |-> (FullScale \div 10) * HeadroomTenths]>>)

NextChunking == Chunking

SpecChunking == InitChunking /\ [][NextChunking]_vars

\* ------------------------------------------------------------------------
\* Properties
\* ------------------------------------------------------------------------
\* The reference reading of a bit string, written without the codec's own
\* operators: bit k (1-based) of b, taken as 0 beyond its end.
BitAt(b, k) == IF k <= Len(b) /\ b[k] = "1" THEN 1 ELSE 0

\* Value of the g-th group of eight, most significant bit first.
GroupValue(b, g) ==
    LET o == BitsPerChar * (g - 1)
    IN  128 * BitAt(b, o + 1) + 64 * BitAt(b, o + 2) + 32 * BitAt(b, o + 3)
        + 16 * BitAt(b, o + 4) + 8 * BitAt(b, o + 5) + 4 * BitAt(b, o + 6)
        + 2 * BitAt(b, o + 7) + BitAt(b, o + 8)

\* A byte as it appears in the decoded text: itself if printable, otherwise
\* '[' decimal ']'.
Rendered(v) ==
    IF 32 <= v /\ v <= 126 THEN <<v>>
    ELSE IF v < 10 THEN <<91, 48 + v, 93>>
    ELSE IF v < 100 THEN <<91, 48 + (v \div 10), 48 + (v % 10), 93>>
    ELSE <<91, 48 + (v \div 100), 48 + ((v \div 10) % 10), 48 + (v % 10), 93>>

RECURSIVE RenderedGroups(_, _, _)
RenderedGroups(b, g, last) ==
    IF g > last THEN <<>>
    ELSE Rendered(GroupValue(b, g)) \o RenderedGroups(b, g + 1, last)

\* Bit k (1-based, most significant first within each character) of a text.
TextBit(t, k) ==
    LET code == t[((k - 1) \div BitsPerChar) + 1]
        shift == 7 - ((k - 1) % BitsPerChar)
    IN  IF (code \div (2 ^ shift)) % 2 = 1 THEN "1" ELSE "0"

AllPrintable(t) == \A i \in 1..Len(t) : 32 <= t[i] /\ t[i] <= 126
AllAscii(t) == \A i \in 1..Len(t) : t[i] <= 127

HI == <<72, 73>>

\* C1: a non-empty printable-ASCII text sent through create_signal and the
\* unmodified signal given to process_audio comes back as the same text.
C1_RoundTrip ==
    (pc = "done" /\ text # <<>> /\ AllPrintable(text))
        => message = TextMessage(text)

\* C2: the signal of an n-character text is Start tone (0.2 s), silence
\* (0.1 s), exactly 8n bit tones in bit order, silence (0.1 s), End tone
\* (0.2 s) and nothing else; its length is the sum of the segments; "HI"
\* gives bits 0100100001001001 and 97020 samples.
C2_FrameLayout ==
    pc = "play" =>
        LET n == Len(text)
            m == BitsPerChar * n
        IN  /\ Len(signal) = m + 4
            /\ signal[1].freq = freq_start /\ signal[1].n = SampleCount(200)
            /\ signal[2].amp = 0 /\ signal[2].n = SampleCount(100)
            /\ \A k \in 1..m :
                  /\ signal[2 + k].freq = (IF TextBit(text, k) = "1" THEN freq_1 ELSE freq_0)
                  /\ signal[2 + k].amp > 0
                  /\ signal[2 + k].n = SampleCount(bit_duration)
            /\ signal[m + 3].amp = 0 /\ signal[m + 3].n = SampleCount(100)
            /\ signal[m + 4].freq = freq_end /\ signal[m + 4].n = SampleCount(200)
            /\ NumSamples(signal)
                  = 2 * SampleCount(200) + 2 * SampleCount(100) + m * SampleCount(bit_duration)
            /\ text = HI =>
                  /\ binary_data = <<"0","1","0","0","1","0","0","0",
                                     "0","1","0","0","1","0","0","1">>
                  /\ NumSamples(signal) = 97020

\* C3 as stated: every all-ASCII text survives text_to_binary followed by
\* binary_to_text.
C3_CodecRoundTripAscii ==
    (pc = "decoded" /\ text # <<>> /\ AllAscii(text)) => message.text = text

\* C3 as amended: every text of printable ASCII characters (32..126)
\* survives text_to_binary followed by binary_to_text.
C3_CodecRoundTripPrintable ==
    (pc = "decoded" /\ text # <<>> /\ AllPrintable(text)) => message.text = text

C3_Witness ==
    pc = "decoded" /\ text = HI /\ message.text = HI

NoStartChunk == \A i \in 1..Len(classifications) : classifications[i].cls # "START"

\* C4: when no chunk is classified START, process_audio returns None: it
\* never reaches trimming or extraction and never returns a text.
C4_NoStartNoMessage ==
    (pc \in {"trim", "extract", "done"} /\ NoStartChunk)
        => (pc = "done" /\ message = NoMessage /\ codec_calls = 0)

C4_Witness ==
    /\ pc = "done" /\ NoStartChunk /\ message = NoMessage
    /\ {classifications[i].cls : i \in 1..Len(classifications)} = {"END", "0", "1", "NOISE"}

NoEndAfterStart ==
    \A i \in 0..(Len(classifications) - 1) :
        i > start_idx => At(classifications, i).cls # "END"

StartThenOneByte ==
    /\ Len(classifications) = 1 + BitsPerChar
    /\ classifications[1].cls = "START"
    /\ \A i \in 2..(1 + BitsPerChar) : classifications[i].cls \in {"0", "1"}

\* C5: with a START and no END after it, end_idx is the number of chunks and
\* decoding goes on; Start followed by 8 chunks classified 0 or 1 returns the
\* one-group text of exactly those 8 bits in order.
C5_MissingEndNonFatal ==
    /\ (pc \in {"trim", "extract", "done"} /\ start_idx # None /\ NoEndAfterStart)
          => end_idx = Len(classifications)
    /\ (pc = "done" /\ StartThenOneByte)
          => message = TextMessage(Rendered(
                 GroupValue([k \in 1..BitsPerChar |-> classifications[k + 1].cls], 1)))

C5_Witness ==
    /\ pc = "done" /\ StartThenOneByte
    /\ end_idx = 9
    /\ message = TextMessage(<<72>>)

\* C6: a Start was found but the extracted bit string is empty: the result
\* is None and binary_to_text was not invoked.
C6_EmptyPayloadFails ==
    (pc = "done" /\ start_idx # None /\ binary_data = <<>>)
        => (message = NoMessage /\ codec_calls = 0)

C6_Witness ==
    /\ pc = "done" /\ start_idx # None /\ binary_data = <<>> /\ message = NoMessage
    /\ Len(classifications) = 4
    /\ classifications[2].cls = "NOISE" /\ classifications[3].cls = "NOISE"
    /\ classifications[4].cls = "END"

\* Chunks of the payload window that yield a bit, up to and including i.
BitChunksUpTo(i) ==
    {j \in data_start..i : At(classifications, j).cls \in {"0", "1", "NOISE"}}

NoiseInWindow ==
    {i \in data_start..(data_end - 1) : At(classifications, i).cls = "NOISE"}

\* C7: every NOISE chunk of the payload window contributes exactly one bit,
\* '0' when its frequency is nearer freq_0 than freq_1 and '1' otherwise (a
\* tie gives '1'); decoding does not fail because of it.
C7_NoiseFallback ==
    (pc = "done" /\ start_idx # None) =>
        /\ \A i \in NoiseInWindow :
              LET f == At(classifications, i).freq
                  k == Cardinality(BitChunksUpTo(i))
              IN  /\ k <= Len(binary_data)
                  /\ binary_data[k] = (IF 2 * f < freq_0 + freq_1 THEN "0" ELSE "1")
        /\ Len(binary_data) = Cardinality(BitChunksUpTo(data_end - 1))
        /\ NoiseInWindow # {} => message.tag = "text"

C7_Witness ==
    /\ pc = "done" /\ start_idx # None
    /\ \E i, j \in NoiseInWindow :
          /\ At(classifications, i).freq = 1300
          /\ At(classifications, j).freq = 1500
          /\ binary_data[Cardinality(BitChunksUpTo(i))] = "0"
          /\ binary_data[Cardinality(BitChunksUpTo(j))] = "1"

\* C8: a bit string whose length is not a multiple of 8 is right-padded with
\* '0' to the next multiple of 8 and decoded as ceil(len/8) groups; no bit is
\* dropped, the last group being the leftover bits followed by zeros.
C8_PaddingDeterminism ==
    (pc = "decoded" /\ Len(binary_data) % BitsPerChar # 0) =>
        message.text = RenderedGroups(binary_data, 1, (Len(binary_data) \div BitsPerChar) + 1)

C8_Witness ==
    /\ pc = "decoded"
    /\ binary_data = <<"0","1","0","0","1","0","0","0","1">>
    /\ message.text = <<72, 91, 49, 50, 56, 93>>

\* C9: each 8-bit group, in order, becomes the character with that code when
\* the value is in 32..126 and the token '[' decimal ']' otherwise (7 gives
\* "[7]"); every group contributes exactly one of the two.
C9_Placeholder ==
    (pc = "decoded" /\ Len(binary_data) % BitsPerChar = 0) =>
        /\ message.text = RenderedGroups(binary_data, 1, Len(binary_data) \div BitsPerChar)
        /\ binary_data = <<"0","0","0","0","0","1","1","1">> => message.text = <<91, 55, 93>>

C9_Witness ==
    /\ pc = "decoded"
    /\ text = <<72, 7>>
    /\ message.text = <<72, 91, 55, 93>>

\* Every order in which the four tolerance tests can be made.
TestOrders ==
    {[i \in 1..4 |-> ClassOrder[p[i]]] :
        p \in {q \in [1..4 -> 1..4] : \A a, b \in 1..4 : a # b => q[a] # q[b]}}

\* C10: with 500, 1000, 2000, 3000 Hz and tolerance 50, no frequency passes
\* more than one of the four tolerance tests, so classify_frequency gives
\* the same result whatever the order of the tests.
C10_WindowsDisjoint ==
    pc = "classified" =>
        LET f == classifications[1].freq
        IN  /\ Cardinality({k \in 1..4 : WithinTolerance(f, ClassOrder[k][2])}) <= 1
            /\ \A order \in TestOrders :
                  ClassifyInOrder(f, order) = classifications[1].cls

C10_Witness ==
    /\ pc = "classified"
    /\ classifications[1].freq = 1049
    /\ classifications[1].cls = "0"

\* A chunk all of whose components stay below the amplitude threshold.
BelowThreshold(chunk) ==
    \A k \in 1..Len(chunk) : chunk[k].amp * (chunk[k].n \div 4) < min_amplitude

\* C11: a chunk whose spectral peak is below min_amplitude gets dominant
\* frequency 0 and classification NOISE, whatever tone it carries; it is
\* never START, END, 0 or 1.
C11_SilenceIsNoise ==
    pc \in {"seek", "trim", "extract", "done"} =>
        \A i \in 1..Len(chunks) :
            BelowThreshold(chunks[i])
                => (classifications[i].freq = 0 /\ classifications[i].cls = "NOISE")

C11_Witness ==
    /\ pc = "seek"
    /\ \E i \in 1..Len(chunks) :
          /\ chunks[i][1].freq = freq_start
          /\ chunks[i][1].amp > 0
          /\ BelowThreshold(chunks[i])
          /\ classifications[i] = [freq |-> 0, cls |-> "NOISE"]

\* C12: text_to_binary produces no bit string for a text with a code point
\* above 255, and every bit string it returns has exactly 8 bits per
\* character.
C12_UnsupportedCodePoint ==
    (pc \in {"decode", "decoded"} /\ text # <<>>) =>
        /\ \A i \in 1..Len(text) : text[i] <= 255
        /\ Len(binary_data) = BitsPerChar * Len(text)

\* C13: send_message on a text that is empty after stripping whitespace
\* fails explicitly (returns False); no signal is built and nothing reaches
\* playback.
C13_EmptyMessageRejected ==
    (sent # "not_called" /\ pc # "send_message"
        /\ \A i \in 1..Len(text) : IsSpace(text[i]))
    => (pc = "rejected" /\ sent = "False" /\ signal = <<>> /\ audio_data = <<>>)

C13_Witness ==
    pc = "rejected" /\ text = <<32, 32>> /\ sent = "False" /\ signal = <<>>

ClassAt(i) == At(classifications, i).cls

\* C14: start_idx is the first START chunk and end_idx the first END chunk
\* strictly after it (the number of chunks when there is none); the chunks
\* before start_idx and after end_idx have no effect on the decoded text.
C14_BoundaryOrder ==
    (pc \in {"trim", "extract", "done"} /\ start_idx # None) =>
        /\ 0 <= start_idx /\ start_idx < Len(classifications)
        /\ ClassAt(start_idx) = "START"
        /\ \A i \in 0..(start_idx - 1) : ClassAt(i) # "START"
        /\ start_idx < end_idx /\ end_idx <= Len(classifications)
        /\ end_idx < Len(classifications) => ClassAt(end_idx) = "END"
        /\ \A i \in (start_idx + 1)..(end_idx - 1) : ClassAt(i) # "END"
        /\ pc = "done" =>
              message = DecodeClassified(
                  SubSeq(classifications, start_idx + 1,
                         Min(end_idx + 1, Len(classifications))))

C14_Witness ==
    /\ pc = "done" /\ message.tag = "text"
    /\ start_idx = 1 /\ end_idx = 3
    /\ ClassAt(0) = "END"
    /\ Len(classifications) = 5 /\ ClassAt(4) \in {"START", "END"}

\* A chunk with the 'no significant tone' reading.
SilentAt(i) == At(classifications, i).freq = 0

\* Silent chunk i lies right after the Start tone: START chunks from
\* start_idx on, then silent chunks up to i.
InLeadingGap(i) ==
    /\ start_idx < i /\ i < end_idx
    /\ \E m \in start_idx..(i - 1) :
          /\ \A j \in start_idx..m : ClassAt(j) = "START"
          /\ \A j \in (m + 1)..i : SilentAt(j)

\* Silent chunk i lies right before the End tone.
InTrailingGap(i) ==
    /\ start_idx < i /\ i < end_idx
    /\ end_idx < Len(classifications)
    /\ \A j \in i..(end_idx - 1) : SilentAt(j)

\* C15: a silent chunk between the Start tone (one chunk or several) and the
\* first data chunk, or between the last data chunk and the End tone, is
\* outside the payload window and so adds no symbol to the bit string.
C15_GapSilenceYieldsNoBits ==
    (pc \in {"extract", "done"} /\ start_idx # None) =>
        \A i \in 0..(Len(classifications) - 1) :
            (InLeadingGap(i) \/ InTrailingGap(i))
                => ~(data_start <= i /\ i < data_end)

SetMin(S) == CHOOSE x \in S : \A y \in S : x <= y
SetMax(S) == CHOOSE x \in S : \A y \in S : x >= y

\* Chunks after start_idx, not above end_idx, that are not NOISE.
NonNoiseAfterStart ==
    {i \in (start_idx + 1)..end_idx :
        i < Len(classifications) /\ ClassAt(i) # "NOISE"}

\* Chunks of [data_start, end_idx) that are not NOISE.
NonNoiseBeforeEnd ==
    {i \in data_start..(end_idx - 1) : ClassAt(i) # "NOISE"}

\* C16: data_start is the smallest index above start_idx and not above
\* end_idx whose chunk is not NOISE (end_idx if none); data_end is one past
\* the largest index in [data_start, end_idx) whose chunk is not NOISE
\* (data_start if none); only NOISE chunks are dropped, and only at the two
\* ends of the window.
C16_SilenceTrimming ==
    (pc \in {"extract", "done"} /\ start_idx # None) =>
        /\ data_start = (IF NonNoiseAfterStart = {} THEN end_idx
                         ELSE SetMin(NonNoiseAfterStart))
        /\ data_end = (IF NonNoiseBeforeEnd = {} THEN data_start
                       ELSE SetMax(NonNoiseBeforeEnd) + 1)
        /\ \A i \in (start_idx + 1)..(end_idx - 1) :
              ~(data_start <= i /\ i < data_end) => ClassAt(i) = "NOISE"
        /\ data_start < data_end =>
              (ClassAt(data_start) # "NOISE" /\ ClassAt(data_end - 1) # "NOISE")

C16_Witness ==
    /\ pc = "done"
    /\ Len(classifications) = 5
    /\ start_idx = 0 /\ data_start = 3 /\ data_end = 4 /\ end_idx = 5
    /\ ClassAt(1) = "NOISE" /\ ClassAt(2) = "NOISE" /\ ClassAt(4) = "NOISE"

\* C17: N samples are cut into consecutive windows of chunk_size samples from
\* offset 0; every full window is kept and the final partial window of
\* r = N mod chunk_size samples is kept only if 2 * r >= chunk_size, for even
\* and odd chunk_size alike.
C17_Chunking ==
    pc = "classify" =>
        LET len == NumSamples(audio_data)
            full == len \div chunk_size
            r == len % chunk_size
            keep == r > 0 /\ 2 * r >= chunk_size
        IN  /\ Len(chunks) = full + (IF keep THEN 1 ELSE 0)
            /\ \A k \in 1..Len(chunks) :
                  NumSamples(chunks[k]) = (IF k <= full THEN chunk_size ELSE r)

\* Order of process_audio's phases.
Phase(p) ==
    CASE p = "listen" -> 0
      [] p = "classify" -> 1
      [] p = "seek" -> 2
      [] p = "trim" -> 3
      [] p = "extract" -> 4
      [] p = "done" -> 5
      [] OTHER -> 0 - 1

\* The outcomes of process_audio that hold in the current state.
Outcomes ==
    {o \in {"text", "no_start", "empty_payload"} :
        \/ o = "text" /\ message.tag = "text" /\ start_idx # None /\ binary_data # <<>>
        \/ o = "no_start" /\ message = NoMessage /\ start_idx = None
        \/ o = "empty_payload" /\ message = NoMessage /\ start_idx # None
              /\ binary_data = <<>>}

\* C18: process_audio goes through boundary search, trimming and extraction
\* in that order, never back to an earlier phase, always finishes, and
\* finishes in exactly one of three outcomes: a text, the no-Start failure,
\* the empty-payload failure.
C18_RunsToCompletion ==
    /\ [][Phase(pc) >= 0 => Phase(pc') > Phase(pc)]_vars
    /\ [](pc = "done" => Cardinality(Outcomes) = 1)
    /\ [](pc = "trim" => message = Pending)
    /\ (pc = "listen") ~> (pc = "done")

C18_Witness ==
    /\ pc = "done" /\ Outcomes = {"text"}
    /\ start_idx = 0 /\ data_start = 1 /\ data_end = 3
    /\ Len(binary_data) = 2

\* C19: past the Start check and after trimming,
\* 0 <= start_idx < data_start <= data_end <= end_idx <= number of chunks,
\* so extraction reads only chunks strictly between start_idx and end_idx.
C19_IndexInvariant ==
    (pc \in {"extract", "done"} /\ start_idx # None) =>
        /\ 0 <= start_idx
        /\ start_idx < data_start
        /\ data_start <= data_end
        /\ data_end <= end_idx
        /\ end_idx <= Len(classifications)

C19_Witness ==
    /\ pc = "extract"
    /\ Len(classifications) = 3
    /\ start_idx = 0 /\ data_start = 3 /\ data_end = 3 /\ end_idx = 3
    /\ ClassAt(1) = "NOISE" /\ ClassAt(2) = "NOISE"

Window == data_start..(data_end - 1)

\* C20: the bit string has one symbol for each chunk of the payload window
\* classified 0, 1 or NOISE, in chunk order; a START chunk in the window adds
\* no bit and causes no failure; no END chunk lies in the window.
C20_BitCount ==
    (pc = "done" /\ start_idx # None) =>
        /\ Len(binary_data) = Cardinality(BitChunksUpTo(data_end - 1))
        /\ \A i \in Window :
              /\ ClassAt(i) # "END"
              /\ ClassAt(i) \in {"0", "1"}
                    => binary_data[Cardinality(BitChunksUpTo(i))] = ClassAt(i)
              /\ ClassAt(i) = "NOISE"
                    => binary_data[Cardinality(BitChunksUpTo(i))] \in {"0", "1"}
        /\ (message.tag = "text") = (BitChunksUpTo(data_end - 1) # {})

C20_Witness ==
    /\ pc = "done" /\ message.tag = "text"
    /\ start_idx = 0 /\ data_start = 1 /\ data_end = 5
    /\ ClassAt(1) = "START" /\ ClassAt(2) = "1" /\ ClassAt(3) = "START"
    /\ ClassAt(4) = "0"
    /\ binary_data = <<"1", "0">>

====
